---- MODULE Spec2Model ----
(***************************************************************************)
(* A model of the Speak-the-Words task controller                          *)
(* (src/app/components/speak-the-words.js) and of its earlier revision     *)
(* (src/unnamed/part_000).                                                 *)
(*                                                                         *)
(* The controller object (`this`), the host question object, the           *)
(* MediaRecorder and the browser's queue of recorder tasks are the state.  *)
(* Every handler is an operator that maps a "world" record (these objects  *)
(* plus the trace of what the handler emitted) to the world it leaves      *)
(* behind; an action applies one handler to the current world.             *)
(***************************************************************************)
EXTENDS Integers, Sequences, FiniteSets, TLC

VARIABLES
  annyang,    \* window.annyang is present
  this,       \* fields of the controller object
  question,   \* the host H5P.Question: buttons, feedback, regions
  recorder,   \* the MediaRecorder object: state and captured audio
  gum,        \* the getUserMedia promise
  tasks,      \* recorder tasks queued by stop() and not yet run
  lastOp,     \* the handler that ran last and what it found
  out,        \* what the last handler emitted or returned, in order
  err         \* the last handler threw

vars == <<annyang, this, question, recorder, gum, tasks, lastOp, out, err>>

----------------------------------------------------------------------------
(* Bounds *)

MaxPending == 2       \* recorder tasks queued at once

----------------------------------------------------------------------------
(* Values *)

\* strings an author may type as an accepted answer
AuthoredWords == {"Paris", "&amp;"}

\* strings the recognition engine may deliver: "paris" differs from the
\* authored "Paris" in case only, "&" is what the authored "&amp;" decodes to
Utterances == {"paris", "&"}

\* the lists of elements of S, in any number and order, none of them twice
ListsOf(S) ==
  {l \in UNION {[1..k -> S] : k \in 0..Cardinality(S)} :
     \A i, j \in 1..Len(l) : l[i] = l[j] => i = j}

None == <<>>
Some(x) == <<x>>

\* a property read: undefined when the object has no such property
get(obj, field) == IF field \in DOMAIN obj THEN obj[field] ELSE "undefined"

\* he.decode on the strings of the model
decode(s) == IF s = "&amp;" THEN "&" ELSE s

\* acceptedAnswers.map(decode)
mapDecode(arr) == [i \in 1..Len(arr) |-> decode(arr[i])]

\* Array.prototype.indexOf, zero-based, -1 when absent
indexOf(arr, x) ==
  IF \E i \in 1..Len(arr) : arr[i] = x
  THEN (CHOOSE i \in 1..Len(arr) : arr[i] = x /\ \A j \in 1..(i - 1) : arr[j] # x) - 1
  ELSE -1

\* names that are no view state
InvalidViewStates == {"undefined", "result"}

VIEW_STATES == <<"task", "results", "solutions">>

correctAnswerText == "Correct answer"
incorrectAnswerText == "Incorrect answer"

\* this.previousState when the host supplies none: {}
NoPreviousState == [viewState |-> "undefined", lastInterpretations |-> None]

\* event.data: the candidates of one listening turn, ranked, at least one
CandidateLists == ListsOf(Utterances) \ {<<>>}

\* extras.previousState: nothing, or what getCurrentState() has returned to a
\* host that asked between two handlers or on a 'kllStoreSessionState' event
Snapshots ==
  {NoPreviousState} \cup
  [viewState : {"task", "results", "solutions"},
   lastInterpretations : {Some(l) : l \in ListsOf(Utterances)}]

\* params.acceptedAnswers as an author may configure them
AcceptedAnswerLists == ListsOf(AuthoredWords)

----------------------------------------------------------------------------
(* The world a handler runs in *)

World ==
  [this |-> this, question |-> question, recorder |-> recorder,
   tasks |-> tasks, out |-> <<>>, err |-> FALSE]

getScore(w) == w.this.score

getMaxScore(w) == 1

isQuestionAnswered(w) == w.this.hasAnswered

getCurrentState(w) ==
  [viewState |-> w.this.viewState,
   lastInterpretations |->
     IF w.this.lastInterpretations = None THEN <<>>
     ELSE w.this.lastInterpretations[1]]

\* an emission, with what the host can observe of the controller at that time
Ev(w, name, response) ==
  [ev |-> name,
   viewState |-> getCurrentState(w).viewState,
   lastInterpretations |-> getCurrentState(w).lastInterpretations,
   score |-> getScore(w),
   maxScore |-> getMaxScore(w),
   response |-> response,
   blob |-> <<>>]

emit(w, name, response) == [w EXCEPT !.out = Append(@, Ev(w, name, response))]

\* a setViewState that takes any name
setViewStateUnchecked(w, state) ==
  [emit(w, "kllStoreSessionState", "") EXCEPT !.this.viewState = state]

\* a setViewState that notifies nobody
setViewStateSilent(w, state) ==
  IF indexOf(VIEW_STATES, state) = -1
  THEN w
  ELSE [w EXCEPT !.this.viewState = state]

setViewState(w, state) ==
  IF indexOf(VIEW_STATES, state) = -1
  THEN w
  ELSE [emit(w, "kllStoreSessionState", "") EXCEPT !.this.viewState = state]

triggerXAPIAnswered(w, response) == emit(w, "xAPI answered", response)

\* the statement is built and returned to the caller, nothing is triggered
getXAPIData(w) == emit(w, "getXAPIData returns", "")

\* MediaRecorder.stop(): the recorder is inactive at once; the captured data
\* and the stop event are delivered by a queued task
mediaRecorderStop(w) ==
  [emit(w, "mediaRecorder.stop", "") EXCEPT
     !.recorder = [state |-> "inactive"],
     !.tasks = @ + 1]

\* MediaRecorder.start()
mediaRecorderStart(w) ==
  [emit(w, "mediaRecorder.start", "") EXCEPT
     !.recorder = [state |-> "recording"]]

\* a subscriber that starts the recorder whatever its state
onStartListeningAlways(w) == mediaRecorderStart(w)

\* the 'start-listening' subscriber
onStartListening(w) ==
  IF w.recorder.state # "recording"
  THEN mediaRecorderStart(w)
  ELSE w

ondataavailable(w, data) ==
  [w EXCEPT !.this.mediaChunks = Append(@, data)]

\* an onstop that leaves the chunks where they are
onstopKeepsChunks(w, exporter) ==
  LET blob == w.this.mediaChunks
  IN IF exporter
     THEN [w EXCEPT !.out = Append(@, [Ev(w, "triggerFileExport", "")
                                         EXCEPT !.blob = blob])]
     ELSE w

\* exporter: H5P.KLFileExporter is present
onstop(w, exporter) ==
  LET blob == w.this.mediaChunks
      w1 == [w EXCEPT !.this.mediaChunks = <<>>]
  IN IF exporter
     THEN [w1 EXCEPT !.out = Append(@, [Ev(w1, "triggerFileExport", "")
                                          EXCEPT !.blob = blob])]
     ELSE w1

\* a stopListening that stops the recorder itself, whatever its state
stopListeningStops(w) == mediaRecorderStop(emit(w, "stop-all-media", ""))

stopListening(w) == emit(w, "stop-all-media", "")

\* handleAnswered, the stop of a running recording
stopRecording(w) ==
  IF w.this.mediaRecorder # "null" /\ w.recorder.state # "inactive"
  THEN mediaRecorderStop(w) ELSE w

\* an evaluation that accepts any of the candidates
isCorrectAnyCandidate(acceptedAnswers, data) ==
  \E k \in 1..Len(data) : indexOf(acceptedAnswers, data[k]) # -1

\* handleAnswered, the evaluation of the response
isCorrect(acceptedAnswers, data) == indexOf(acceptedAnswers, data[1]) # -1

\* a correct answer that leaves the controls as they are
scoreAndButtonsKept(w, correct) ==
  IF correct
  THEN [w EXCEPT !.this.score = 1]
  ELSE [w EXCEPT !.this.score = 0,
                 !.question.tryAgain = TRUE,
                 !.question.showSolution = TRUE]

\* handleAnswered, the score and the controls of a correct or a wrong answer
scoreAndButtons(w, correct) ==
  IF correct
  THEN [w EXCEPT !.this.score = 1,
                 !.question.tryAgain = FALSE,
                 !.question.showSolution = FALSE]
  ELSE [w EXCEPT !.this.score = 0,
                 !.question.tryAgain = TRUE,
                 !.question.showSolution = TRUE]

\* H5P.Question.setFeedback
setFeedback(w, text, score, maxScore) ==
  [w EXCEPT !.question.feedback =
     Some([text |-> text, score |-> score, maxScore |-> maxScore])]

\* a report that is not guarded by the prior snapshot
reportsAlways(previousState) == TRUE

\* handleAnswered, the guard of the report
reportsAnswer(previousState) ==
  previousState.viewState = "undefined" \/ previousState.viewState = "task"

\* a handleAnswered that reports before it evaluates
handleAnsweredReportsFirst(w, data) ==
  LET w1 == stopRecording(w)
      response == data[1]
      w2 == [w1 EXCEPT !.this.lastInterpretations = Some(data)]
      w3 == IF reportsAnswer(w2.this.previousState)
            THEN triggerXAPIAnswered(w2, response) ELSE w2
      correct == isCorrect(w3.this.acceptedAnswers, data)
      w4 == scoreAndButtons(w3, correct)
      answerText == IF correct THEN correctAnswerText ELSE incorrectAnswerText
      w5 == setFeedback(w4, decode(answerText), getScore(w4), getMaxScore(w4))
      w6 == [w5 EXCEPT !.this.hasAnswered = TRUE]
  IN setViewState(w6, "results")

\* a handleAnswered that stops the recording when all the rest is done
handleAnsweredStopsLast(w, data) ==
  LET response == data[1]
      w2 == [w EXCEPT !.this.lastInterpretations = Some(data)]
      correct == isCorrect(w2.this.acceptedAnswers, data)
      w3 == scoreAndButtons(w2, correct)
      answerText == IF correct THEN correctAnswerText ELSE incorrectAnswerText
      w4 == setFeedback(w3, decode(answerText), getScore(w3), getMaxScore(w3))
      w5 == IF reportsAnswer(w4.this.previousState)
            THEN triggerXAPIAnswered(w4, response) ELSE w4
      w6 == [w5 EXCEPT !.this.hasAnswered = TRUE]
  IN stopRecording(setViewState(w6, "results"))

handleAnswered(w, data) ==
  LET w1 == stopRecording(w)
      response == data[1]
      w2 == [w1 EXCEPT !.this.lastInterpretations = Some(data)]
      correct == isCorrect(w2.this.acceptedAnswers, data)
      w3 == scoreAndButtons(w2, correct)
      answerText == IF correct THEN correctAnswerText ELSE incorrectAnswerText
      w4 == setFeedback(w3, decode(answerText), getScore(w3), getMaxScore(w3))
      w5 == IF reportsAnswer(w4.this.previousState)
            THEN triggerXAPIAnswered(w4, response) ELSE w4
      w6 == [w5 EXCEPT !.this.hasAnswered = TRUE]
  IN setViewState(w6, "results")

\* a showSolutions that leaves its button visible
showSolutionsKeepsButton(w) ==
  setViewState(emit(w, "show-solution", ""), "solutions")

showSolutions(w) ==
  LET w1 == [w EXCEPT !.question.showSolution = FALSE]
      w2 == emit(w1, "show-solution", "")
  IN setViewState(w2, "solutions")

\* a resetTask that keeps the prior snapshot
resetTaskKeepsPreviousState(w) ==
  LET w1 == [w EXCEPT !.question.tryAgain = FALSE,
                      !.question.showSolution = FALSE,
                      !.question.feedback = None]
      w2 == emit(w1, "reset-task", "")
      w3 == [w2 EXCEPT !.this.hasAnswered = FALSE, !.this.score = 0]
      w4 == emit(w3, "question reset-task", "")
      w5 == [w4 EXCEPT !.this.lastInterpretations = Some(<<>>)]
  IN setViewState(w5, "task")

\* a resetTask that keeps the score and the has-answered flag
resetTaskKeepsScore(w) ==
  LET w1 == [w EXCEPT !.question.tryAgain = FALSE,
                      !.question.showSolution = FALSE,
                      !.question.feedback = None]
      w2 == emit(w1, "reset-task", "")
      w4 == emit(w2, "question reset-task", "")
      w5 == [w4 EXCEPT !.this.previousState = NoPreviousState,
                       !.this.lastInterpretations = Some(<<>>)]
  IN setViewState(w5, "task")

\* a resetTask that keeps the prior snapshot and the last utterances
resetTaskKeepsInterpretations(w) ==
  LET w1 == [w EXCEPT !.question.tryAgain = FALSE,
                      !.question.showSolution = FALSE,
                      !.question.feedback = None]
      w2 == emit(w1, "reset-task", "")
      w3 == [w2 EXCEPT !.this.hasAnswered = FALSE, !.this.score = 0]
      w4 == emit(w3, "question reset-task", "")
  IN setViewState(w4, "task")

resetTask(w) ==
  LET w1 == [w EXCEPT !.question.tryAgain = FALSE,
                      !.question.showSolution = FALSE,
                      !.question.feedback = None]
      w2 == emit(w1, "reset-task", "")
      w3 == [w2 EXCEPT !.this.hasAnswered = FALSE, !.this.score = 0]
      w4 == emit(w3, "question reset-task", "")
      w5 == [w4 EXCEPT !.this.previousState = NoPreviousState,
                       !.this.lastInterpretations = Some(<<>>)]
  IN setViewState(w5, "task")

recreateState(w) ==
  LET prev == w.this.previousState
      wasCorrect == indexOf(w.this.acceptedAnswers, prev.lastInterpretations[1][1]) # -1
      \* 'answered-correctly' and 'answered-wrong' have the same subscriber
      w1 == IF prev.viewState = "results" \/ prev.viewState = "solutions"
            THEN IF wasCorrect
                 THEN handleAnswered(w, prev.lastInterpretations[1])
                 ELSE handleAnswered(w, prev.lastInterpretations[1])
            ELSE w
      w2 == IF prev.viewState = "solutions" THEN showSolutions(w1) ELSE w1
  IN emit(w2, "resize", "")

\* window.MediaRecorder and its isTypeSupported, as the platform offers them
Platforms ==
  [MediaRecorder : BOOLEAN, isTypeSupported : BOOLEAN,
   webm : BOOLEAN, mp4 : BOOLEAN]

\* a negotiation that asks for 'audio/mp4' first
getRecordingMIMETypeMp4First(p) ==
  IF ~p.MediaRecorder THEN "null"
  ELSE IF ~p.isTypeSupported THEN "audio/mp4"
  ELSE IF p.mp4 THEN "audio/mp4"
  ELSE IF p.webm THEN "audio/webm"
  ELSE "null"

getRecordingMIMEType(p) ==
  IF ~p.MediaRecorder THEN "null"
  ELSE IF ~p.isTypeSupported THEN "audio/mp4"
  ELSE IF p.webm THEN "audio/webm"
  ELSE IF p.mp4 THEN "audio/mp4"
  ELSE "null"

\* the synchronous part of registerDomElements; the promise is settled later
registerDomElements(w, p) ==
  LET w1 == [w EXCEPT !.this.mediaMIMEType = getRecordingMIMEType(p)]
      w2 == [w1 EXCEPT !.question.introduction = "introduction",
                       !.question.content = "questionWrapper"]
      prev == w2.this.previousState
  IN IF prev.lastInterpretations # None /\ Len(prev.lastInterpretations[1]) > 0
     THEN recreateState(w2) ELSE w2

----------------------------------------------------------------------------
(* Construction *)

constructor(acceptedAnswers, previousState) ==
  LET t0 == [previousState |-> previousState,
             acceptedAnswers |-> mapDecode(acceptedAnswers),
             mediaRecorder |-> "null",
             mediaChunks |-> <<>>,
             hasAnswered |-> FALSE,
             score |-> 0,
             viewState |-> "undefined",
             lastInterpretations |-> None,
             mediaMIMEType |-> "undefined"]
      w0 == [this |-> t0,
             question |-> [tryAgain |-> FALSE, showSolution |-> FALSE,
                           feedback |-> None, introduction |-> "none",
                           content |-> "none"],
             recorder |-> [state |-> "inactive"],
             tasks |-> 0, out |-> <<>>, err |-> FALSE]
      \* the field read is `vieState`, which no snapshot carries
      vieState == get(previousState, "vieState")
  IN setViewState(w0, IF vieState # "undefined" THEN vieState ELSE "task")

\* the platform of a handler that does not look at it
NoPlatform ==
  [MediaRecorder |-> FALSE, isTypeSupported |-> FALSE,
   webm |-> FALSE, mp4 |-> FALSE]

\* the handler that runs, the view state and the recorder it finds, whether
\* it is handed the outcome event that was handled last, whether it finds
\* H5P.KLFileExporter, the platform it asks for a MIME type, and whether the
\* controller was built from a snapshot taken in `results` or `solutions`
Op(name) ==
  [name |-> name, viewState |-> this.viewState,
   recording |-> recorder.state = "recording", replayed |-> FALSE,
   exporter |-> FALSE, platform |-> NoPlatform,
   resumed |-> lastOp.resumed]

Init ==
  /\ annyang \in BOOLEAN
  /\ \E a \in AcceptedAnswerLists, s \in Snapshots :
       LET w == constructor(a, s) IN
         /\ this = w.this
         /\ question = w.question
         /\ recorder = w.recorder
         /\ tasks = w.tasks
         /\ out = w.out
         /\ err = w.err
  /\ gum = "none"
  /\ lastOp = [name |-> "constructor", viewState |-> "undefined",
              recording |-> FALSE, replayed |-> FALSE,
              exporter |-> FALSE, platform |-> NoPlatform,
              resumed |-> this.previousState.viewState \in {"results", "solutions"}]

\* the handler ran to its end and left world w
Becomes(op, w) ==
  /\ this' = w.this
  /\ question' = w.question
  /\ recorder' = w.recorder
  /\ tasks' = w.tasks
  /\ out' = w.out
  /\ err' = w.err
  /\ lastOp' = op

\* the handler threw before it changed anything
Throws(name) ==
  /\ out' = <<>>
  /\ err' = TRUE
  /\ lastOp' = Op(name)
  /\ UNCHANGED <<this, question, recorder, tasks>>

registered == question.introduction # "none"

----------------------------------------------------------------------------
(* Actions *)

\* a registerDomElements that does not test for the speech engine
RegisterDomElementsUnchecked ==
  /\ ~registered
  /\ \E p \in Platforms :
       /\ Becomes(Op("registerDomElements"), registerDomElements(World, p))
       /\ gum' = IF getRecordingMIMEType(p) # "null" THEN "pending" ELSE "none"
  /\ UNCHANGED annyang

RegisterDomElements ==
  /\ ~registered
  /\ IF ~annyang
     THEN /\ question' = [question EXCEPT !.introduction = "errorElement"]
          /\ out' = <<>>
          /\ err' = FALSE
          /\ lastOp' = Op("registerDomElements")
          /\ UNCHANGED <<this, recorder, tasks, gum>>
     ELSE \E p \in Platforms :
            /\ Becomes([Op("registerDomElements") EXCEPT !.platform = p],
                       registerDomElements(World, p))
            /\ gum' = IF getRecordingMIMEType(p) # "null" THEN "pending" ELSE "none"
  /\ UNCHANGED annyang

\* the promise of getUserMedia resolves with a stream
GetUserMediaResolved ==
  /\ gum = "pending"
  /\ gum' = "resolved"
  /\ this' = [this EXCEPT !.mediaRecorder = "MediaRecorder"]
  /\ out' = <<>>
  /\ err' = FALSE
  /\ lastOp' = Op("getUserMedia.then")
  /\ UNCHANGED <<annyang, question, recorder, tasks>>

\* no capture device, or permission denied: the promise rejects
GetUserMediaRejected ==
  /\ gum = "pending"
  /\ gum' = "rejected"
  /\ out' = <<>>
  /\ err' = FALSE
  /\ lastOp' = Op("getUserMedia.catch")
  /\ UNCHANGED <<annyang, this, question, recorder, tasks>>

\* 'answered-correctly' or 'answered-wrong' on the event store
Answered ==
  /\ annyang /\ registered
  /\ \E data \in CandidateLists :
       Becomes([Op("handleAnswered") EXCEPT
                  !.replayed = (this.lastInterpretations = Some(data))],
               handleAnswered(World, data))
  /\ UNCHANGED <<annyang, gum>>

ResetTask ==
  /\ registered
  /\ IF annyang THEN Becomes(Op("resetTask"), resetTask(World))
     ELSE Throws("resetTask")
  /\ UNCHANGED <<annyang, gum>>

ShowSolutions ==
  /\ registered
  /\ IF annyang THEN Becomes(Op("showSolutions"), showSolutions(World))
     ELSE Throws("showSolutions")
  /\ UNCHANGED <<annyang, gum>>

\* 'start-listening' on the event store: a listening turn begins
StartListening ==
  /\ annyang /\ registered
  /\ tasks < MaxPending
  /\ IF this.mediaRecorder # "null"
     THEN Becomes(Op("start-listening"), onStartListening(World))
     ELSE Becomes(Op("start-listening"), World)
  /\ UNCHANGED <<annyang, gum>>

StopListening ==
  /\ registered
  /\ IF annyang THEN Becomes(Op("stopListening"), stopListening(World))
     ELSE Throws("stopListening")
  /\ UNCHANGED <<annyang, gum>>

\* the host asks for the xAPI data
GetXAPIData ==
  /\ Becomes(Op("getXAPIData"), getXAPIData(World))
  /\ UNCHANGED <<annyang, gum>>

\* setViewState called with a name that is no view state
SetViewState ==
  /\ \E state \in InvalidViewStates :
       Becomes(Op("setViewState"), setViewState(World, state))
  /\ UNCHANGED <<annyang, gum>>

\* the task queued by MediaRecorder.stop(): dataavailable, then stop
RecorderTask ==
  /\ tasks > 0
  /\ \E exporter \in BOOLEAN :
       LET w0 == [World EXCEPT !.tasks = @ - 1]
       IN Becomes([Op("mediaRecorder task") EXCEPT !.exporter = exporter],
                  onstop(ondataavailable(w0, "chunk"), exporter))
  /\ UNCHANGED <<annyang, gum>>

Next ==
  \/ RegisterDomElements
  \/ GetUserMediaResolved
  \/ GetUserMediaRejected
  \/ StartListening
  \/ Answered
  \/ RecorderTask
  \/ ResetTask
  \/ ShowSolutions
  \/ StopListening
  \/ SetViewState
  \/ GetXAPIData

Spec == Init /\ [][Next]_vars

----------------------------------------------------------------------------
(* The earlier revision of the controller, src/unnamed/part_000: no view   *)
(* state, no prior snapshot, and a handleAnswered that reads the recorder  *)
(* without testing that there is one.                                      *)

constructorOld(acceptedAnswers) ==
  [this |-> [previousState |-> NoPreviousState,
             acceptedAnswers |-> mapDecode(acceptedAnswers),
             mediaRecorder |-> "null",
             mediaChunks |-> <<>>,
             hasAnswered |-> FALSE,
             score |-> 0,
             viewState |-> "undefined",
             lastInterpretations |-> None,
             mediaMIMEType |-> "undefined"],
   question |-> [tryAgain |-> FALSE, showSolution |-> FALSE,
                 feedback |-> None, introduction |-> "none",
                 content |-> "none"],
   recorder |-> [state |-> "inactive"],
   tasks |-> 0, out |-> <<>>, err |-> FALSE]

handleAnsweredOld(w, data) ==
  IF w.this.mediaRecorder = "null"
  THEN \* TypeError: this.mediaRecorder is null
       [w EXCEPT !.err = TRUE]
  ELSE
    LET w1 == IF w.recorder.state # "inactive" THEN mediaRecorderStop(w) ELSE w
        response == data[1]
        correct == isCorrect(w1.this.acceptedAnswers, data)
        w3 == scoreAndButtons(w1, correct)
        answerText == IF correct THEN correctAnswerText ELSE incorrectAnswerText
        w4 == setFeedback(w3, decode(answerText), getScore(w3), getMaxScore(w3))
        w5 == triggerXAPIAnswered(w4, response)
    IN [w5 EXCEPT !.this.hasAnswered = TRUE]

registerDomElementsOld(w, p) ==
  LET w1 == [w EXCEPT !.this.mediaMIMEType = getRecordingMIMEType(p)]
  IN [w1 EXCEPT !.question.introduction = "introduction",
                !.question.content = "questionWrapper"]

resetTaskOld(w) ==
  LET w1 == [w EXCEPT !.question.tryAgain = FALSE,
                      !.question.showSolution = FALSE,
                      !.question.feedback = None]
      w2 == emit(w1, "reset-task", "")
      w3 == [w2 EXCEPT !.this.hasAnswered = FALSE, !.this.score = 0]
  IN emit(w3, "question reset-task", "")

showSolutionsOld(w) ==
  emit([w EXCEPT !.question.showSolution = FALSE], "show-solution", "")

triggerFileExport(w, blob) ==
  [w EXCEPT !.out = Append(@, [Ev(w, "exportFile", "") EXCEPT !.blob = blob])]

onstopOld(w) ==
  LET blob == w.this.mediaChunks
  IN triggerFileExport([w EXCEPT !.this.mediaChunks = <<>>], blob)

InitOld ==
  /\ annyang \in BOOLEAN
  /\ \E a \in AcceptedAnswerLists :
       LET w == constructorOld(a) IN
         /\ this = w.this
         /\ question = w.question
         /\ recorder = w.recorder
         /\ tasks = w.tasks
         /\ out = w.out
         /\ err = w.err
  /\ gum = "none"
  /\ lastOp = [name |-> "constructor", viewState |-> "undefined",
              recording |-> FALSE, replayed |-> FALSE,
              exporter |-> FALSE, platform |-> NoPlatform,
              resumed |-> FALSE]

RegisterDomElementsOld ==
  /\ ~registered
  /\ IF ~annyang
     THEN /\ question' = [question EXCEPT !.introduction = "errorElement"]
          /\ out' = <<>>
          /\ err' = FALSE
          /\ lastOp' = Op("registerDomElements")
          /\ UNCHANGED <<this, recorder, tasks, gum>>
     ELSE \E p \in Platforms :
            /\ Becomes(Op("registerDomElements"), registerDomElementsOld(World, p))
            /\ gum' = IF getRecordingMIMEType(p) # "null" THEN "pending" ELSE "none"
  /\ UNCHANGED annyang

AnsweredOld ==
  /\ annyang /\ registered
  /\ \E data \in CandidateLists :
       Becomes(Op("handleAnswered"), handleAnsweredOld(World, data))
  /\ UNCHANGED <<annyang, gum>>

RecorderTaskOld ==
  /\ tasks > 0
  /\ LET w0 == [World EXCEPT !.tasks = @ - 1]
     IN Becomes(Op("mediaRecorder task"), onstopOld(ondataavailable(w0, "chunk")))
  /\ UNCHANGED <<annyang, gum>>

ResetTaskOld ==
  /\ registered
  /\ IF annyang THEN Becomes(Op("resetTask"), resetTaskOld(World))
     ELSE Throws("resetTask")
  /\ UNCHANGED <<annyang, gum>>

ShowSolutionsOld ==
  /\ registered
  /\ IF annyang THEN Becomes(Op("showSolutions"), showSolutionsOld(World))
     ELSE Throws("showSolutions")
  /\ UNCHANGED <<annyang, gum>>

NextOld ==
  \/ RegisterDomElementsOld
  \/ GetUserMediaResolved
  \/ GetUserMediaRejected
  \/ StartListening
  \/ AnsweredOld
  \/ RecorderTaskOld
  \/ ResetTaskOld
  \/ ShowSolutionsOld
  \/ StopListening

SpecOld == InitOld /\ [][NextOld]_vars

----------------------------------------------------------------------------
(* Properties *)

\* how many times the last handler emitted `name`
Count(name) == Cardinality({i \in 1..Len(out) : out[i].ev = name})

Emitted(name) == Count(name) > 0

\* an outcome event handled by the subscriber, outside of a replay
Handled == lastOp.name = "handleAnswered"

Restored == this.previousState.viewState \in {"results", "solutions"}

FirstAccepted(data) ==
  \E i \in 1..Len(this.acceptedAnswers) : this.acceptedAnswers[i] = data[1]

\* C1: an outcome event handled in view state `task` leads to `results` and
\* triggers exactly one xAPI 'answered' event, in any session.
C1_Claimed ==
  (Handled /\ lastOp.viewState = "task") =>
    (this.viewState = "results" /\ Count("xAPI answered") = 1)

\* C2: the outcome event that was handled last, handled again while the view
\* state is `results`, triggers no xAPI 'answered' event.
C2_Claimed ==
  (Handled /\ lastOp.viewState = "results" /\ lastOp.replayed) =>
    Count("xAPI answered") = 0

\* C3: after resetTask the view state is `task`, the score 0, has-answered
\* false and lastInterpretations empty: getCurrentState() is
\* {viewState: 'task', lastInterpretations: []}.
C3_Reset ==
  lastOp.name = "resetTask" =>
    /\ getCurrentState(World) = [viewState |-> "task", lastInterpretations |-> <<>>]
    /\ getScore(World) = 0
    /\ ~isQuestionAnswered(World)
    /\ annyang => (this.lastInterpretations = Some(<<>>) /\ ~err)

C3_Witness ==
  /\ lastOp.name = "resetTask" /\ lastOp.viewState = "solutions"
  /\ annyang /\ this.viewState = "task"

\* C4: showSolutions invoked while the view state is not `results` leaves the
\* view state as it was.
C4_Claimed ==
  (lastOp.name = "showSolutions" /\ lastOp.viewState # "results") =>
    this.viewState = lastOp.viewState

\* C5: registerDomElements on a controller built from a snapshot with
\* utterances and viewState `results` or `solutions` replays the evaluation of
\* the first stored utterance: the view state is the snapshot's (through
\* showSolutions when it is `solutions`), the score is 1 iff that utterance is
\* accepted, and no xAPI 'answered' event is triggered.
C5_Restore ==
  LET prev == this.previousState IN
  (/\ lastOp.name = "registerDomElements" /\ annyang
   /\ Restored
   /\ prev.lastInterpretations # None
   /\ prev.lastInterpretations # Some(<<>>)) =>
    /\ this.viewState = prev.viewState
    /\ this.lastInterpretations = prev.lastInterpretations
    /\ this.score = IF FirstAccepted(prev.lastInterpretations[1]) THEN 1 ELSE 0
    /\ this.hasAnswered
    /\ Count("xAPI answered") = 0
    /\ (prev.viewState = "solutions") = Emitted("show-solution")

C5_Witness ==
  /\ lastOp.name = "registerDomElements"
  /\ this.previousState.viewState = "solutions"
  /\ this.viewState = "solutions"
  /\ this.score = 1
  /\ out # <<>>

\* C6: after handleAnswered the score is 1 iff the first candidate equals an
\* accepted answer, and 0 otherwise, whatever the later candidates are.
C6_Score ==
  Handled =>
    this.score = IF FirstAccepted(this.lastInterpretations[1]) THEN 1 ELSE 0

\* the second candidate is accepted, the first is not
C6_Witness ==
  /\ Handled
  /\ Len(this.lastInterpretations[1]) = 2
  /\ \E i \in 1..Len(this.acceptedAnswers) :
       this.acceptedAnswers[i] = this.lastInterpretations[1][2]
  /\ this.score = 0

\* C7: after an outcome the retry and show-solution controls are both hidden
\* when the score is 1 and both shown when it is 0.
C7_Buttons ==
  Handled =>
    IF this.score = 1
    THEN ~question.tryAgain /\ ~question.showSolution
    ELSE question.tryAgain /\ question.showSolution

\* a wrong answer handled in `task`, where both controls were hidden
C7_Witness ==
  /\ Handled /\ lastOp.viewState = "task"
  /\ this.score = 0
  /\ question.tryAgain /\ question.showSolution

\* C8: an outcome that arrives when there is no media recorder is handled in
\* full and raises no error (checked on the revision of src/unnamed/part_000).
C8_Claimed ==
  (Handled /\ this.mediaRecorder = "null") =>
    /\ ~err
    /\ this.hasAnswered
    /\ question.feedback # None

\* C9: a recording started in one listening turn is not running any more when
\* the start-listening of a later turn arrives.
C9_Claimed ==
  lastOp.name = "start-listening" => ~lastOp.recording

\* C10: after stopListening issued while the recorder is recording, the
\* recorder is no longer recording and its stop task is queued.
C10_Claimed ==
  (lastOp.name = "stopListening" /\ lastOp.recording) =>
    (recorder.state = "inactive" /\ tasks > 0)

\* C11: stopListening called while no recording is running changes nothing of
\* the controller (view state, score, has-answered, lastInterpretations, the
\* chunks, the recorder and its queued tasks), publishes no export and no
\* xAPI 'answered' event, and a second call in a row changes nothing at all.
C11_StopListeningNoOp ==
  [][(lastOp'.name = "stopListening" /\ recorder.state # "recording") =>
       /\ UNCHANGED <<this, question, recorder, tasks, gum>>
       /\ Count("xAPI answered")' = 0
       /\ Count("triggerFileExport")' = 0
       /\ lastOp.name = "stopListening" => UNCHANGED vars]_vars

\* stopListening after an answer was handled and the recorder was stopped
C11_Witness ==
  /\ lastOp.name = "stopListening" /\ ~lastOp.recording
  /\ annyang /\ this.mediaRecorder # "null"
  /\ this.hasAnswered /\ tasks > 0
  /\ Count("stop-all-media") = 1

\* C12: setViewState called with a name that is none of task, results,
\* solutions leaves the view state as it was and triggers no
\* 'kllStoreSessionState'; the view state is one of the three in every
\* reachable state, and `task` after construction.
C12_ViewState ==
  /\ this.viewState \in {"task", "results", "solutions"}
  /\ lastOp.name = "constructor" => this.viewState = "task"
  /\ lastOp.name = "setViewState" =>
       /\ this.viewState = lastOp.viewState
       /\ Count("kllStoreSessionState") = 0

C12_Witness ==
  /\ lastOp.name = "setViewState"
  /\ this.viewState = "solutions"
  /\ out = <<>>

\* C13: every step that takes the view state to `results` or to `solutions`
\* triggers 'kllStoreSessionState', once per transition: once for an outcome
\* event, once for showSolutions, and in the replay of registerDomElements
\* once for a snapshot in `results` and twice (task to results, results to
\* solutions) for a snapshot in `solutions`.
C13_Notified ==
  /\ [][(this'.viewState # this.viewState
          /\ this'.viewState \in {"results", "solutions"}) =>
         Emitted("kllStoreSessionState")']_vars
  /\ [](/\ Handled =>
            (this.viewState = "results" /\ Count("kllStoreSessionState") = 1)
        /\ (lastOp.name = "showSolutions" /\ annyang) =>
            (this.viewState = "solutions" /\ Count("kllStoreSessionState") = 1)
        /\ lastOp.name = "registerDomElements" =>
            Count("kllStoreSessionState") =
              CASE this.viewState = "results" -> 1
                [] this.viewState = "solutions" -> 2
                [] OTHER -> 0)

\* the replay of a snapshot taken in `solutions`
C13_Witness ==
  /\ lastOp.name = "registerDomElements"
  /\ lastOp.viewState = "task"
  /\ this.viewState = "solutions"
  /\ Count("kllStoreSessionState") = 2

\* C14: without the speech engine the session stays as constructed, whatever
\* the host calls: view state `task`, score 0, has-answered false,
\* lastInterpretations empty, no xAPI 'answered' event, no media recorder, no
\* request for a capture stream and no recording.
C14_NoEngine ==
  ~annyang =>
    /\ getCurrentState(World) = [viewState |-> "task", lastInterpretations |-> <<>>]
    /\ getScore(World) = 0
    /\ ~isQuestionAnswered(World)
    /\ Count("xAPI answered") = 0
    /\ gum = "none"
    /\ this.mediaRecorder = "null"
    /\ recorder.state = "inactive" /\ tasks = 0
    /\ Count("mediaRecorder.start") = 0

\* showSolutions on a restored session that only shows the notice
C14_Witness ==
  /\ ~annyang
  /\ question.introduction = "errorElement"
  /\ this.previousState.viewState = "solutions"
  /\ this.previousState.lastInterpretations # None
  /\ lastOp.name = "showSolutions" /\ err

\* C15: an outcome event handled while the recorder is recording stops the
\* recorder first: MediaRecorder.stop() is called while the score, the view
\* state and lastInterpretations are still those of before the event, and
\* before any xAPI 'answered' event and any 'kllStoreSessionState'. The task
\* that the stop queues changes neither the score nor the view state when it
\* runs, with or without an exporter.
C15_StopFirst ==
  [][/\ (lastOp'.name = "handleAnswered" /\ recorder.state = "recording") =>
          /\ out' # <<>>
          /\ out'[1] = Ev(World, "mediaRecorder.stop", "")
          /\ Count("mediaRecorder.stop")' = 1
          /\ recorder'.state = "inactive" /\ tasks' = tasks + 1
          /\ this'.viewState = "results" /\ this'.hasAnswered
     /\ lastOp'.name = "mediaRecorder task" =>
          /\ this'.score = this.score
          /\ this'.viewState = this.viewState
          /\ this'.hasAnswered = this.hasAnswered
          /\ this'.lastInterpretations = this.lastInterpretations]_vars

\* a correct answer given while recording: the stop saw score 0 and `task`
C15_Witness ==
  /\ Handled /\ lastOp.recording /\ lastOp.viewState = "task"
  /\ this.score = 1 /\ this.viewState = "results"
  /\ Len(out) = 3
  /\ out[1].ev = "mediaRecorder.stop" /\ out[1].score = 0
  /\ out[2].ev = "xAPI answered" /\ out[2].score = 1
  /\ out[3].ev = "kllStoreSessionState"

\* C16: recordings share no chunks. The chunk sequence is empty whenever no
\* recorder task is running; the task of a stop delivers the one chunk of its
\* recording and assembles a unit of exactly that chunk, clears the sequence
\* with or without H5P.KLFileExporter, and exports the unit iff
\* H5P.KLFileExporter is there, also when the next recording has started
\* before the task runs.
C16_Sessions ==
  /\ this.mediaChunks = <<>>
  /\ lastOp.name = "mediaRecorder task" =>
       /\ Count("triggerFileExport") = IF lastOp.exporter THEN 1 ELSE 0
       /\ Len(out) = Count("triggerFileExport")
       /\ \A i \in 1..Len(out) : out[i].blob = <<"chunk">>

\* the task of one recording runs while the next recording is running and
\* the stop of another one is still queued
C16_Witness ==
  /\ lastOp.name = "mediaRecorder task" /\ lastOp.recording
  /\ lastOp.exporter
  /\ recorder.state = "recording"
  /\ out # <<>> /\ out[1].blob = <<"chunk">>

\* C17: MediaRecorder.start() is called only by the 'start-listening'
\* subscriber, once, and only on a recorder that is not recording, which is
\* recording afterwards; and when getRecordingMIMEType returned null no
\* capture stream is requested, no recorder is created and nothing is ever
\* recorded.
C17_Start ==
  /\ [][/\ Emitted("mediaRecorder.start")' =>
             /\ lastOp'.name = "start-listening"
             /\ this.mediaRecorder # "null"
             /\ recorder.state # "recording"
             /\ Count("mediaRecorder.start")' = 1
        /\ (lastOp'.name = "start-listening" /\ this.mediaRecorder # "null") =>
             recorder'.state = "recording"]_vars
  /\ [](this.mediaMIMEType = "null" =>
          /\ gum = "none"
          /\ this.mediaRecorder = "null"
          /\ recorder.state = "inactive" /\ tasks = 0
          /\ ~Emitted("mediaRecorder.start") /\ ~Emitted("triggerFileExport"))

\* 'start-listening' arrives while the recorder is recording
C17_Witness ==
  /\ lastOp.name = "start-listening" /\ lastOp.recording
  /\ this.mediaRecorder # "null"
  /\ recorder.state = "recording"
  /\ out = <<>>

\* C18: the MIME type that registerDomElements gets from
\* getRecordingMIMEType is null without window.MediaRecorder, 'audio/mp4'
\* when MediaRecorder has no isTypeSupported, 'audio/webm' whenever
\* isTypeSupported accepts it, and null in every remaining case.
C18_Claimed ==
  (lastOp.name = "registerDomElements" /\ annyang) =>
    LET p == lastOp.platform
        type == this.mediaMIMEType
    IN /\ ~p.MediaRecorder => type = "null"
       /\ (p.MediaRecorder /\ ~p.isTypeSupported) => type = "audio/mp4"
       /\ (p.MediaRecorder /\ p.isTypeSupported /\ p.webm) => type = "audio/webm"
       /\ (p.MediaRecorder /\ p.isTypeSupported /\ ~p.webm) => type = "null"

\* C18, amended: as claimed, but when isTypeSupported rejects 'audio/webm'
\* the type is 'audio/mp4' if isTypeSupported accepts that, and null only
\* when it rejects both.
C18_Amended ==
  (lastOp.name = "registerDomElements" /\ annyang) =>
    LET p == lastOp.platform
        type == this.mediaMIMEType
    IN /\ ~p.MediaRecorder => type = "null"
       /\ (p.MediaRecorder /\ ~p.isTypeSupported) => type = "audio/mp4"
       /\ (p.MediaRecorder /\ p.isTypeSupported /\ p.webm) => type = "audio/webm"
       /\ (p.MediaRecorder /\ p.isTypeSupported /\ ~p.webm /\ p.mp4) =>
            type = "audio/mp4"
       /\ (p.MediaRecorder /\ p.isTypeSupported /\ ~p.webm /\ ~p.mp4) =>
            type = "null"

\* a platform that reports 'audio/mp4' alone: capture is set up with it
C18_Witness ==
  /\ lastOp.name = "registerDomElements" /\ annyang
  /\ lastOp.platform = [MediaRecorder |-> TRUE, isTypeSupported |-> TRUE,
                        webm |-> FALSE, mp4 |-> TRUE]
  /\ this.mediaMIMEType = "audio/mp4"
  /\ gum = "pending"

\* C19: every xAPI 'answered' event that handleAnswered triggers carries the
\* score of the outcome it handles (1 iff the first candidate is accepted),
\* max score 1 and the first candidate as response; getXAPIData returns a
\* statement with the current score and max score 1, triggers nothing and
\* changes nothing of the controller.
C19_Record ==
  /\ [](Handled =>
          \A i \in 1..Len(out) : out[i].ev = "xAPI answered" =>
            /\ out[i].score =
                 IF FirstAccepted(this.lastInterpretations[1]) THEN 1 ELSE 0
            /\ out[i].maxScore = 1
            /\ out[i].response = this.lastInterpretations[1][1])
  /\ [][lastOp'.name = "getXAPIData" =>
          /\ Len(out') = 1
          /\ out'[1].ev = "getXAPIData returns"
          /\ out'[1].score = this.score
          /\ out'[1].maxScore = 1
          /\ UNCHANGED <<this, question, recorder, tasks, gum>>]_vars

\* a correct answer reported in a turn that follows a wrong one
C19_Witness ==
  /\ Handled /\ lastOp.viewState = "results" /\ ~lastOp.replayed
  /\ Len(this.lastInterpretations[1]) = 2
  /\ this.score = 1
  /\ \E i \in 1..Len(out) :
       /\ out[i].ev = "xAPI answered"
       /\ out[i].score = 1
       /\ out[i].response = this.lastInterpretations[1][1]

\* C20: when 'kllStoreSessionState' is triggered for a transition,
\* getCurrentState() already returns the view state that is entered, with
\* the lastInterpretations that go with it.
C20_Claimed ==
  (annyang /\ lastOp.name \in {"handleAnswered", "showSolutions", "resetTask"}) =>
    \A i \in 1..Len(out) : out[i].ev = "kllStoreSessionState" =>
      /\ out[i].viewState = getCurrentState(World).viewState
      /\ out[i].lastInterpretations = getCurrentState(World).lastInterpretations

\* what getCurrentState() returned, handed back as extras.previousState
asPreviousState(state) ==
  [viewState |-> state.viewState,
   lastInterpretations |-> Some(state.lastInterpretations)]

\* a new controller built from the snapshot, after registerDomElements
Resumed(acceptedAnswers, state, p) ==
  registerDomElements(constructor(acceptedAnswers, asPreviousState(state)), p)

\* C21: a new controller built from what getCurrentState() returns between
\* two handlers, with the same accepted answers, returns the same from
\* getCurrentState() after registerDomElements, and has the same score and
\* has-answered flag.
C21_Claimed ==
  (annyang /\ registered) =>
    \A a \in AcceptedAnswerLists, p \in Platforms :
      mapDecode(a) = this.acceptedAnswers =>
        LET w == Resumed(a, getCurrentState(World), p)
        IN /\ getCurrentState(w) = getCurrentState(World)
           /\ getScore(w) = getScore(World)
           /\ isQuestionAnswered(w) = isQuestionAnswered(World)

\* the step handles an outcome event, from the event store or in a replay
HandlesOutcome ==
  \/ lastOp'.name = "handleAnswered"
  \/ lastOp'.name = "registerDomElements" /\ Emitted("kllStoreSessionState")'

\* C22: between handlers the score is 0 or 1 and getMaxScore() is 1; in view
\* state `task` the score is 0, has-answered is false and lastInterpretations
\* is empty; view state `results` implies has-answered; and has-answered is
\* false after construction, becomes true with every outcome handled, false
\* with every resetTask, and is changed by nothing else.
C22_Session ==
  /\ [](/\ getScore(World) \in {0, 1}
        /\ getMaxScore(World) = 1
        /\ this.viewState = "task" =>
             /\ getScore(World) = 0
             /\ ~isQuestionAnswered(World)
             /\ getCurrentState(World).lastInterpretations = <<>>
        /\ this.viewState = "results" => isQuestionAnswered(World)
        /\ lastOp.name = "constructor" => ~isQuestionAnswered(World))
  /\ [][this'.hasAnswered =
          IF HandlesOutcome THEN TRUE
          ELSE IF lastOp'.name = "resetTask" /\ annyang THEN FALSE
          ELSE this.hasAnswered]_vars

\* a reset after a correct answer and the solutions
C22_Witness ==
  /\ annyang
  /\ lastOp.name = "resetTask" /\ lastOp.viewState = "solutions"
  /\ this.viewState = "task"
  /\ this.score = 0 /\ ~this.hasAnswered
  /\ this.lastInterpretations = Some(<<>>)
  /\ tasks > 0

\* C23: the show-solution button is visible only in view state `results`
\* with score 0, the retry button only in `results` or `solutions` with
\* score 0, and both are hidden in `task`, after outcome events, showSolutions,
\* resetTask and the replay of a snapshot alike.
C23_Controls ==
  /\ question.showSolution => (this.viewState = "results" /\ this.score = 0)
  /\ question.tryAgain =>
       (this.viewState \in {"results", "solutions"} /\ this.score = 0)
  /\ this.viewState = "task" => (~question.showSolution /\ ~question.tryAgain)

\* the replay of a wrong answer whose solution was shown
C23_Witness ==
  /\ lastOp.name = "registerDomElements"
  /\ this.viewState = "solutions" /\ this.score = 0
  /\ question.tryAgain /\ ~question.showSolution

\* C24: a controller built from a snapshot taken in `results` or `solutions`
\* keeps that snapshot until the first resetTask and triggers no xAPI
\* 'answered' event for any outcome handled until then; resetTask drops the
\* snapshot, nothing else changes it, and every outcome handled after a
\* resetTask triggers exactly one xAPI 'answered' event, as in a controller
\* built without a snapshot.
C24_Suppression ==
  /\ []((lastOp.resumed /\ this.previousState # NoPreviousState) => Restored)
  /\ [](Handled =>
          Count("xAPI answered") =
            IF lastOp.resumed /\ this.previousState # NoPreviousState
            THEN 0 ELSE 1)
  /\ [](lastOp.name = "registerDomElements" => Count("xAPI answered") = 0)
  /\ [][this'.previousState =
          IF lastOp'.name = "resetTask" /\ annyang THEN NoPreviousState
          ELSE this.previousState]_vars

\* an outcome reported after the reset of a resumed session
C24_Witness ==
  /\ lastOp.resumed
  /\ Handled /\ lastOp.viewState = "task"
  /\ this.previousState = NoPreviousState
  /\ Count("xAPI answered") = 1

====
